---- MODULE Spec2Model ----
(***************************************************************************)
(* Verification & remediation hooks of claude-kompendium:                  *)
(*   hooks/betty-auto-test-fix.py      (BettyAutoTestFix, the loop)        *)
(*   hooks/smart-completion-guardian.py (SmartCompletionGuardian, the gate)*)
(* Each hook is one process run: it reads a JSON payload from stdin, runs  *)
(* shell commands in the project directory and returns a process status.   *)
(* Shell commands, the file system and the network are the environment:    *)
(* their outcomes are chosen nondeterministically from bounded sets.       *)
(***************************************************************************)
EXTENDS Integers, Sequences, FiniteSets, TLC

\* ------------------------------------------------------------------ bounds
\* Environment budget of one verification pass: a stage that deviates from
\* "exit 0, no output" costs 1, or its number of output lines if that is more.
MaxPassEvents == 1
\* Most errors one completion check reports.
MaxGateErrors == 4

\* --------------------------------------------------------- program constants
max_fix_attempts == 3
\* failures[:10] of the parse_* functions
FailureLimit == 10
\* output[:1000] kept in tests_run
OutputExcerptLen == 1000
\* type_issues[:3] of format_block_message
ShownPerType == 3

\* A dict key that is not present (dict.get gives None).
Absent == "<absent>"

\* ------------------------------------------------------------------ helpers
\* a slice that keeps the whole list
TakeAll(s, n) == s

Take(s, n) == SubSeq(s, 1, IF Len(s) < n THEN Len(s) ELSE n)

RECURSIVE Concat(_)
Concat(ss) == IF ss = <<>> THEN <<>> ELSE Head(ss) \o Concat(Tail(ss))

Range(s) == {s[i] : i \in 1..Len(s)}

\* ------------------------------------------------------------ file system
betty_dir == <<"home", "jarvis", "projects", "Betty">>
fix_history_file == betty_dir \o <<"fixes", "auto-fixes.jsonl">>
test_results_dir == betty_dir \o <<"test-results">>
completion_blocks_file == <<"home", "jarvis", "projects", "Betty", "completion-blocks.jsonl">>

\* path lies in the tree rooted at dir
IsInside(path, dir) ==
    /\ Len(path) >= Len(dir)
    /\ SubSeq(path, 1, Len(dir)) = dir

\* ------------------------------------------------------- test_configs table
ProjectTypes == {"javascript", "python", "docker"}

test_commands(pt) ==
    CASE pt = "javascript" -> <<"npm test", "npm run test:unit", "npm run test:integration">>
      [] pt = "python"     -> <<"pytest", "python -m pytest", "python -m unittest">>
      [] pt = "docker"     -> <<"docker-compose config">>
      [] OTHER             -> <<>>

lint_commands(pt) ==
    CASE pt = "javascript" -> <<"npm run lint", "npm run eslint">>
      [] pt = "python"     -> <<"ruff check", "flake8", "pylint">>
      [] OTHER             -> <<>>

type_commands(pt) ==
    CASE pt = "javascript" -> <<"npm run type-check", "npm run tsc">>
      [] pt = "python"     -> <<"mypy .">>
      [] OTHER             -> <<>>

build_commands(pt) ==
    CASE pt = "javascript" -> <<"npm run build">>
      [] pt = "python"     -> <<"python setup.py build">>
      [] pt = "docker"     -> <<"docker-compose build", "docker build .">>
      [] OTHER             -> <<>>

\* common_fixes: failure type -> fixer, per project type
common_fixes(pt) ==
    CASE pt = "javascript" ->
           [k \in {"missing_import", "syntax_error", "type_error", "lint_error"} |->
              CASE k = "missing_import" -> "fix_missing_import_js"
                [] k = "syntax_error"   -> "fix_syntax_error_js"
                [] k = "type_error"     -> "fix_type_error_ts"
                [] k = "lint_error"     -> "fix_lint_error_js"]
      [] pt = "python" ->
           [k \in {"import_error", "syntax_error", "indentation_error", "type_error"} |->
              CASE k = "import_error"      -> "fix_import_error_py"
                [] k = "syntax_error"      -> "fix_syntax_error_py"
                [] k = "indentation_error" -> "fix_indentation_error_py"
                [] k = "type_error"        -> "fix_type_error_py"]
      [] pt = "docker" ->
           [k \in {"yaml_error", "dockerfile_error"} |->
              CASE k = "yaml_error"       -> "fix_yaml_error"
                [] k = "dockerfile_error" -> "fix_dockerfile_error"]

\* The stages of one pass in the order run_all_tests runs them.
StagesOf(pt) ==
    [i \in 1..Len(test_commands(pt))  |-> [command |-> test_commands(pt)[i],  type |-> "test"]]
 \o [i \in 1..Len(lint_commands(pt))  |-> [command |-> lint_commands(pt)[i],  type |-> "lint"]]
 \o [i \in 1..Len(type_commands(pt))  |-> [command |-> type_commands(pt)[i],  type |-> "type-check"]]
 \o [i \in 1..Len(build_commands(pt)) |-> [command |-> build_commands(pt)[i], type |-> "build"]]

\* ---------------------------------------------------------- output lines
\* A command's output is a sequence of lines; each line is one of these texts.
\*   eslint  "app.js:12:3: error: missing semicolon"
\*   flake8  "app.py:12:3: E225 missing whitespace"
\*   tsc_any "app.ts:7: error: Parameter 'x' implicitly has an 'any' type"
\*   tsc     "app.ts:9: error: Type 'string' is not assignable"
\*   jest    "FAIL src/app.test.js "
\*   pytest  "FAILED tests/test_app.py::test_x "
\*   assert  "AssertionError: expected 1"
\*   error   "Error: boom"
\*   yaml    "yaml: line 3: mapping values are not allowed here"
\*   noise   "ok"
\*   timeout "Command timed out after 60 seconds"
\*   oserror "[Errno 2] No such file or directory"
\* number of characters of a line, its newline included
LineLen(l) ==
    CASE l = "eslint"  -> 38
      [] l = "flake8"  -> 37
      [] l = "tsc_any" -> 60
      [] l = "tsc"     -> 50
      [] l = "jest"    -> 22
      [] l = "pytest"  -> 34
      [] l = "assert"  -> 27
      [] l = "error"   -> 12
      [] l = "yaml"    -> 50
      [] l = "noise"   -> 3
      [] l = "timeout" -> 34
      [] l = "oserror" -> 36

RECURSIVE Excerpt(_, _)
\* output[:n]: the lines that begin within the first n characters
Excerpt(output, n) ==
    IF output = <<>> \/ n <= 0 THEN <<>>
    ELSE <<Head(output)>> \o Excerpt(Tail(output), n - LineLen(Head(output)))

\* 'yaml' in output.lower() or 'yml' in output.lower()
MentionsYaml(output) == \E i \in 1..Len(output) : output[i] = "yaml"

\* 'docker' in command.lower()
MentionsDocker(command) ==
    command \in {"docker-compose config", "docker-compose build", "docker build ."}

\* re.findall(pattern, line): the capture groups of the matches of one regular
\* expression in one line (a sequence: no match is <<>>).
Findall(pattern, l) ==
    CASE pattern = "FAIL\\s+(.+?)\\.(.+?)\\s" ->
           IF l = "jest" THEN << <<"src/app", "test.js">> >> ELSE <<>>
      [] pattern = "FAILED\\s+(.+?)::(.+?)\\s" ->
           IF l = "pytest" THEN << <<"tests/test_app.py", "test_x">> >> ELSE <<>>
      [] pattern = "AssertionError:\\s+(.+)" ->
           IF l = "assert" THEN << <<"expected 1">> >> ELSE <<>>
      [] pattern = "Error:\\s+(.+)" ->
           CASE l = "assert" -> << <<"expected 1">> >>
             [] l = "error"  -> << <<"boom">> >>
             [] OTHER        -> <<>>
      [] pattern = "(.+?):(\\d+):(\\d+):\\s+error:\\s+(.+)" ->
           IF l = "eslint" THEN << <<"app.js", "12", "3", "missing semicolon">> >> ELSE <<>>
      [] pattern = "(.+?):(\\d+):(\\d+):\\s+(.+)" ->
           CASE l = "eslint" -> << <<"app.js", "12", "3", "error: missing semicolon">> >>
             [] l = "flake8" -> << <<"app.py", "12", "3", "E225 missing whitespace">> >>
             [] OTHER        -> <<>>
      [] pattern = "(.+?):(\\d+):\\s+error:\\s+(.+)" ->
           CASE l = "eslint"  -> << <<"app.js:12", "3", "missing semicolon">> >>
             [] l = "tsc_any" -> << <<"app.ts", "7", "Parameter 'x' implicitly has an 'any' type">> >>
             [] l = "tsc"     -> << <<"app.ts", "9", "Type 'string' is not assignable">> >>
             [] OTHER         -> <<>>

\* re.findall(pattern, output)
FindallIn(pattern, output) ==
    Concat([i \in 1..Len(output) |-> Findall(pattern, output[i])])

\* ------------------------------------------------------------ classification
\* 'details' of a failure that has none (only test failures carry the match)
NoDetails == <<>>

Failure(type, command, details, file, line, column, message, fixable) ==
    [type |-> type, command |-> command, details |-> details, file |-> file,
     line |-> line, column |-> column, message |-> message, fixable |-> fixable]

test_patterns ==
    <<"FAIL\\s+(.+?)\\.(.+?)\\s", "FAILED\\s+(.+?)::(.+?)\\s",
      "AssertionError:\\s+(.+)", "Error:\\s+(.+)">>

parse_test_failures(output, command) ==
    LET per(p) == LET ms == FindallIn(p, output) IN
                  [j \in 1..Len(ms) |->
                     Failure("test_failure", command, ms[j], Absent, Absent, Absent, Absent, TRUE)]
    IN Take(Concat([k \in 1..Len(test_patterns) |-> per(test_patterns[k])]), FailureLimit)

lint_patterns ==
    <<"(.+?):(\\d+):(\\d+):\\s+error:\\s+(.+)", "(.+?):(\\d+):(\\d+):\\s+(.+)">>

parse_lint_failures(output, command) ==
    LET per(p) == LET ms == FindallIn(p, output) IN
                  [j \in 1..Len(ms) |->
                     Failure("lint_error", command, NoDetails, ms[j][1], ms[j][2],
                             IF Len(ms[j]) > 2 THEN ms[j][3] ELSE "0",
                             ms[j][Len(ms[j])], TRUE)]
    IN Take(Concat([k \in 1..Len(lint_patterns) |-> per(lint_patterns[k])]), FailureLimit)

type_patterns ==
    <<"(.+?):(\\d+):\\s+error:\\s+(.+)", "(.+?):(\\d+):\\s+error:\\s+(.+)">>

parse_type_failures(output, command) ==
    LET per(p) == LET ms == FindallIn(p, output) IN
                  [j \in 1..Len(ms) |->
                     Failure("type_error", command, NoDetails, ms[j][1], ms[j][2], Absent,
                             ms[j][3], TRUE)]
    IN Take(Concat([k \in 1..Len(type_patterns) |-> per(type_patterns[k])]), FailureLimit)

parse_build_failures(output, command) ==
    IF MentionsDocker(command) /\ MentionsYaml(output)
    THEN <<Failure("yaml_error", command, NoDetails, Absent, Absent, Absent, Absent, TRUE)>>
    ELSE <<>>

\* the parser run_all_tests applies to a stage of this type
ParseFailures(type, output, command) ==
    CASE type = "test"       -> parse_test_failures(output, command)
      [] type = "lint"       -> parse_lint_failures(output, command)
      [] type = "type-check" -> parse_type_failures(output, command)
      [] type = "build"      -> parse_build_failures(output, command)

\* ------------------------------------------------------------- environment
\* What the operating system does with one subprocess.run call.
ExitEvent(rc, out) == [kind |-> "exit", returncode |-> rc, output |-> out]
TimeoutEvent == [kind |-> "timeout", returncode |-> 0, output |-> <<>>]
OSErrorEvent == [kind |-> "oserror", returncode |-> 0, output |-> <<>>]
QuietEvent == ExitEvent(0, <<>>)

\* lines the commands of a stage type are taken to print
LinesFor(type) ==
    CASE type = "test"       -> {"jest", "assert", "error"}
      [] type = "lint"       -> {"eslint", "flake8"}
      [] type = "type-check" -> {"tsc_any", "tsc"}
      [] type = "build"      -> {"yaml", "noise"}

RECURSIVE SeqsOfLen(_, _)
SeqsOfLen(S, n) ==
    IF n = 0 THEN {<<>>}
    ELSE {<<x>> \o r : x \in S, r \in SeqsOfLen(S, n - 1)}

Cost(ev) ==
    IF ev = QuietEvent THEN 0
    ELSE IF ev.kind = "exit" /\ Len(ev.output) > 1 THEN Len(ev.output) ELSE 1

\* the events of a stage of this type that cost at most b
EventsUpTo(type, b) ==
    {QuietEvent} \cup
    (IF b < 1 THEN {}
     ELSE {TimeoutEvent, OSErrorEvent}
          \cup {ExitEvent(rc, out) : rc \in {0, 1},
                out \in UNION {SeqsOfLen(LinesFor(type), n) : n \in 0..b}})

RECURSIVE PassEnvs(_, _)
\* the environments of one pass over these stages within budget b
PassEnvs(stages, b) ==
    IF stages = <<>> THEN {<<>>}
    ELSE UNION { {<<e>> \o r : r \in PassEnvs(Tail(stages), b - Cost(e))}
                 : e \in EventsUpTo(Head(stages).type, b) }

\* -------------------------------------------------------------- Stage Runner
\* a runner whose TimeoutExpired branch reports the stage as succeeded
run_commandTimeoutSucceeds(ev) ==
    CASE ev.kind = "exit" ->
           [success |-> ev.returncode = 0, output |-> ev.output, returncode |-> ev.returncode]
      [] ev.kind = "timeout" ->
           [success |-> TRUE, output |-> <<"timeout">>, returncode |-> 0]
      [] OTHER ->
           [success |-> FALSE, output |-> <<"oserror">>, returncode |-> -1]

run_command(ev) ==
    CASE ev.kind = "exit" ->
           [success |-> ev.returncode = 0, output |-> ev.output, returncode |-> ev.returncode]
      [] ev.kind = "timeout" ->
           [success |-> FALSE, output |-> <<"timeout">>, returncode |-> -1]
      [] OTHER ->
           [success |-> FALSE, output |-> <<"oserror">>, returncode |-> -1]

\* ------------------------------------------------------ one verification pass
\* the failures run_all_tests adds for one stage
StageFailuresAlways(stage, result) ==
    ParseFailures(stage.type, result.output, stage.command)

StageFailures(stage, result) ==
    IF ~result.success
    THEN ParseFailures(stage.type, result.output, stage.command)
    ELSE <<>>

NoResults == [project_type |-> Absent, tests_run |-> <<>>, failures |-> <<>>,
              has_failures |-> FALSE]

run_all_tests(pt, env) ==
    LET stages == StagesOf(pt)
        res == [i \in 1..Len(stages) |-> run_command(env[i])]
        fails == Concat([i \in 1..Len(stages) |-> StageFailures(stages[i], res[i])])
    IN [project_type |-> pt,
        tests_run |-> [i \in 1..Len(stages) |->
                         [command |-> stages[i].command, type |-> stages[i].type,
                          success |-> res[i].success,
                          output |-> Excerpt(res[i].output, OutputExcerptLen)]],
        failures |-> fails,
        has_failures |-> Len(fails) > 0]

\* the results one pass can have, per project type
ResultsJavascript ==
    {run_all_tests("javascript", env) :
        env \in PassEnvs(StagesOf("javascript"), MaxPassEvents)}
ResultsPython ==
    {run_all_tests("python", env) : env \in PassEnvs(StagesOf("python"), MaxPassEvents)}
ResultsDocker ==
    {run_all_tests("docker", env) : env \in PassEnvs(StagesOf("docker"), MaxPassEvents)}

PassResults(pt) ==
    CASE pt = "javascript" -> ResultsJavascript
      [] pt = "python"     -> ResultsPython
      [] pt = "docker"     -> ResultsDocker

\* what run_comprehensive_test reads of final_results
Outcome(r) == [failures |-> r.failures, has_failures |-> r.has_failures]

OutcomesJavascript == {Outcome(r) : r \in ResultsJavascript}
OutcomesPython == {Outcome(r) : r \in ResultsPython}
OutcomesDocker == {Outcome(r) : r \in ResultsDocker}

PassOutcomes(pt) ==
    CASE pt = "javascript" -> OutcomesJavascript
      [] pt = "python"     -> OutcomesPython
      [] pt = "docker"     -> OutcomesDocker

\* ------------------------------------------------------------------ project
package_json == "package.json"
requirements_txt == "requirements.txt"
docker_compose_yml == "docker-compose.yml"

\* the projects the hooks are run on: marker files present, and whether
\* *.js/*.ts files outnumber *.py files
Projects ==
    {[files |-> F, more_js |-> FALSE] :
        F \in {{package_json}, {requirements_txt}, {docker_compose_yml},
               {package_json, docker_compose_yml}}}
    \cup {[files |-> {}, more_js |-> m] : m \in BOOLEAN}

detect_project_type(p) ==
    IF package_json \in p.files THEN "javascript"
    ELSE IF requirements_txt \in p.files THEN "python"
    ELSE IF docker_compose_yml \in p.files THEN "docker"
    ELSE IF p.more_js THEN "javascript" ELSE "python"

\* ------------------------------------------------------------------ fixers
ReactMessage == "'React' is not defined"

MessageHas(message, phrase) ==
    CASE phrase = "implicitly has an 'any' type" ->
           message = "Parameter 'x' implicitly has an 'any' type"
      [] phrase = ReactMessage -> message = ReactMessage
      [] OTHER -> FALSE

\* fixers that may report success for any failure
FixerResultsOptimistic(fixer, failure) == BOOLEAN

\* The values a fixer can return for a failure. File reads, file writes and
\* shell commands may succeed or fail; an exception inside a fixer is caught
\* there and gives False.
FixerResults(fixer, failure) ==
    CASE fixer = "fix_missing_import_js" ->
           IF failure.file = Absent THEN {FALSE}
           ELSE IF MessageHas(failure.message, ReactMessage) THEN BOOLEAN ELSE {FALSE}
      [] fixer \in {"fix_syntax_error_js", "fix_syntax_error_py"} ->
           IF failure.file = Absent \/ failure.line \in {Absent, "0"} THEN {FALSE}
           ELSE BOOLEAN
      [] fixer = "fix_type_error_ts" ->
           IF failure.file = Absent THEN {FALSE}
           ELSE IF MessageHas(failure.message, "implicitly has an 'any' type")
                THEN BOOLEAN ELSE {FALSE}
      [] fixer = "fix_lint_error_js" -> BOOLEAN
      [] fixer = "fix_import_error_py" ->
           IF failure.file = Absent THEN {FALSE}
           ELSE IF MessageHas(failure.message, "No module named") THEN BOOLEAN ELSE {FALSE}
      [] fixer = "fix_indentation_error_py" ->
           IF failure.file = Absent THEN {FALSE} ELSE BOOLEAN
      [] fixer = "fix_type_error_py" -> {FALSE}
      [] fixer = "fix_yaml_error" -> BOOLEAN
      [] fixer = "fix_dockerfile_error" -> {FALSE}
      [] fixer = "attempt_generic_fix" ->
           IF failure.type = "lint_error" THEN BOOLEAN ELSE {FALSE}

\* Whether an exception can occur inside the try block of a fixer: the fixers
\* that open the failure's file can meet an OSError; run_command never raises.
FixerRaises(fixer, failure) ==
    CASE fixer \in {"fix_missing_import_js", "fix_type_error_ts", "fix_import_error_py"} ->
           IF failure.file = Absent THEN {FALSE} ELSE BOOLEAN
      [] fixer \in {"fix_syntax_error_js", "fix_syntax_error_py"} ->
           IF failure.file = Absent \/ failure.line \in {Absent, "0"} THEN {FALSE}
           ELSE BOOLEAN
      [] OTHER -> {FALSE}

\* a handler that reports the fix as applied when the fixer met an exception
FixerReturnTrueOnError(r, raised) == IF raised THEN TRUE ELSE r

\* "except: return False" of the fixers: r is what the body returns when no
\* exception occurs
FixerReturn(r, raised) == IF raised THEN FALSE ELSE r

\* ------------------------------------------------------------------- state
VARIABLES
    hook,           \* which hook this process runs: "autofix", "gate" or "guardian"
    pc,             \* position in the hook's entry point
    project_type,   \* run_comprehensive_test: result of detect_project_type
    stdin,          \* the payload on standard input
    test_results,   \* run_comprehensive_test: result of the first pass
    final_results,  \* run_comprehensive_test: result of the final verification
                    \*   (the fields that are read: failures, has_failures)
    fix_results,    \* attempt_fixes: its bookkeeping
    idx,            \* attempt_fixes: position in test_results['failures']
    dispatched,     \* history: fixer calls made, their return values, and whether
                    \*   an exception occurred inside the fixer
    fix_log,        \* lines this run appended to fixes/auto-fixes.jsonl
    notifications,  \* history: notifications and security alerts posted, and
                    \*   whether delivery worked
    reports,        \* report files this run wrote to test-results/
    passes,         \* history: completed run_all_tests calls
    rounds,         \* history: completed attempt_fixes calls
    issues,         \* check_completion: result of run_checks
    stdout,         \* what the hook printed on standard output
    audit,          \* lines this run appended to completion-blocks.jsonl (gate)
                    \*   or to security/blocked-operations.jsonl (guardian)
    writes,         \* history: paths the hook's own code wrote to
    error,          \* the step whose exception the entry point caught, or Absent
    exit_status     \* the value the entry point returned (the process status);
                    \*   -1 while running

vars == <<hook, pc, project_type, stdin, test_results, final_results, fix_results, idx,
          dispatched, fix_log, notifications, reports, passes, rounds, issues, stdout,
          audit, writes, error, exit_status>>

loopVars == <<test_results, final_results, fix_results, idx, dispatched, fix_log,
              notifications, reports, passes, rounds>>
gateVars == <<issues, stdout, audit>>

NoFixResults == [attempted |-> 0, fixed |-> <<>>, failed |-> <<>>, fixed_count |-> 0,
                 all_fixed |-> FALSE]

\* ------------------------------------------------------------------ payloads
Malformed == [valid |-> FALSE, tool_name |-> Absent, command |-> Absent]
AutofixPayload == [valid |-> TRUE, tool_name |-> Absent, command |-> Absent]

GateCommands == {"echo 'All done'", "echo hello", "npm test", "print('Task complete')",
                 "echo INCOMPLETE", "git commit -m finished"}

GatePayloads ==
    {[valid |-> TRUE, tool_name |-> "Bash", command |-> c] : c \in GateCommands}
    \cup {[valid |-> TRUE, tool_name |-> "Edit", command |-> Absent]}

\* tool calls handed to the pre-tool guardian
GuardCommands == {"rm -rf /", "RM -RF /tmp/x", "sudo rm -rf *", ":(){ :|:& };:",
                  "cat img > /dev/sda", "dd if=/dev/zero of=disk.img", "chmod 777 /etc",
                  "kill -9 -1", "ls -la", "rm -r build", "sudo ls"}

GuardPaths == {"/etc/passwd", "/etc/passwd.bak", "/boot/grub/grub.cfg", "/proc/1/mem",
               "/home/u/.ssh/authorized_keys", "/home/u/app.py", "/home/u/.env"}

GuardPayloads ==
    {[valid |-> TRUE, tool_name |-> "Bash", command |-> c, file_path |-> Absent] :
        c \in GuardCommands}
    \cup {[valid |-> TRUE, tool_name |-> t, command |-> Absent, file_path |-> f] :
             t \in {"Edit", "MultiEdit", "Write"}, f \in GuardPaths}
    \cup {[valid |-> TRUE, tool_name |-> t, command |-> Absent, file_path |-> Absent] :
             t \in {"KillBash", "Read"}}

Init ==
    /\ hook \in {"autofix", "gate", "guardian"}
    /\ pc = "start"
    /\ project_type = Absent
    /\ stdin \in CASE hook = "autofix"  -> {Malformed, AutofixPayload}
                 [] hook = "gate"     -> {Malformed} \cup GatePayloads
                 [] hook = "guardian" -> {Malformed} \cup GuardPayloads
    /\ test_results = NoResults
    /\ final_results = Outcome(NoResults)
    /\ fix_results = NoFixResults
    /\ idx = 1
    /\ dispatched = <<>>
    /\ fix_log = <<>>
    /\ notifications = <<>>
    /\ reports = <<>>
    /\ passes = 0
    /\ rounds = 0
    /\ issues = <<>>
    /\ stdout = <<>>
    /\ audit = <<>>
    /\ writes = {}
    /\ error = Absent
    /\ exit_status = -1

\* ---------------------------------------------- BettyAutoTestFix: entry point
\* an exception that no handler catches: the process ends with a traceback
RaiseUncaught(step) ==
    /\ error' = step
    /\ pc' = "crashed"

\* an exception reaches the except clause of the entry point
Raise(step) ==
    /\ error' = step
    /\ pc' = "return"

\* json.load(sys.stdin) and the hook_data.get calls
LoadInput ==
    /\ hook = "autofix" /\ pc = "start"
    /\ IF stdin.valid
       THEN /\ \E p \in Projects : project_type' = detect_project_type(p)
            /\ pc' = "verify"
            /\ error' = error
       ELSE /\ Raise("json.load")
            /\ project_type' = project_type
    /\ UNCHANGED <<hook, stdin, loopVars, gateVars, writes, exit_status>>

\* an entry point that calls attempt_fixes whatever the first pass found
InitialVerificationAlwaysFixes ==
    /\ hook = "autofix" /\ pc = "verify"
    /\ \E r \in PassResults(project_type) :
          /\ test_results' = r
          /\ passes' = passes + 1
          /\ pc' = "fix"
    /\ UNCHANGED <<hook, project_type, stdin, final_results, fix_results, idx, dispatched,
                   fix_log, notifications, reports, rounds, gateVars, writes, error,
                   exit_status>>

\* test_results = self.run_all_tests(project_type, changed_files)
InitialVerification ==
    /\ hook = "autofix" /\ pc = "verify"
    /\ \E r \in PassResults(project_type) :
          /\ test_results' = r
          /\ passes' = passes + 1
          /\ pc' = IF r.has_failures THEN "fix" ELSE "save"
    /\ UNCHANGED <<hook, project_type, stdin, final_results, fix_results, idx, dispatched,
                   fix_log, notifications, reports, rounds, gateVars, writes, error,
                   exit_status>>

\* --------------------------------------------------------------- attempt_fixes
\* "if not failure.get('fixable'): continue"
ShouldSkipNever(failure) == FALSE

ShouldSkip(failure) == ~failure.fixable

\* a dispatch that ignores common_fixes
FixerForGenericOnly(pt, failure) == "attempt_generic_fix"

\* the strategy attempt_fixes calls for a failure
FixerFor(pt, failure) ==
    IF failure.type \in DOMAIN common_fixes(pt)
    THEN common_fixes(pt)[failure.type]
    ELSE "attempt_generic_fix"

\* only the branch of the registered fixers calls log_fix
LogsFix(fixer) == fixer # "attempt_generic_fix"

\* bookkeeping of one attempt with result r
Record(fr, failure, r) ==
    [fr EXCEPT !.attempted = @ + 1,
               !.fixed = IF r THEN Append(@, failure) ELSE @,
               !.fixed_count = IF r THEN @ + 1 ELSE @,
               !.failed = IF r THEN @ ELSE Append(@, failure)]

\* one iteration of "for failure in test_results['failures']"
AttemptFix ==
    /\ hook = "autofix" /\ pc = "fix" /\ idx <= Len(test_results.failures)
    /\ LET failure == test_results.failures[idx]
           fixer == FixerFor(project_type, failure)
       IN IF ShouldSkip(failure)
          THEN /\ idx' = idx + 1
               /\ UNCHANGED <<pc, fix_results, dispatched, fix_log, writes, error>>
          ELSE \E body \in FixerResults(fixer, failure),
                  raised \in FixerRaises(fixer, failure), log_ok \in BOOLEAN :
                 LET r == FixerReturn(body, raised) IN
                 /\ dispatched' = Append(dispatched,
                        [failure |-> failure, fixer |-> fixer, result |-> r,
                         raised |-> raised])
                 /\ fix_results' = Record(fix_results, failure, r)
                 /\ IF ~LogsFix(fixer)
                    THEN /\ log_ok
                         /\ idx' = idx + 1
                         /\ UNCHANGED <<pc, fix_log, writes, error>>
                    ELSE IF log_ok
                    THEN /\ fix_log' = Append(fix_log,
                                [failure |-> failure,
                                 status |-> IF r THEN "success" ELSE "failed"])
                         /\ writes' = writes \cup {fix_history_file}
                         /\ idx' = idx + 1
                         /\ UNCHANGED <<pc, error>>
                    ELSE /\ Raise("log_fix")
                         /\ UNCHANGED <<idx, fix_log, writes>>
    /\ UNCHANGED <<hook, project_type, stdin, test_results, final_results, notifications,
                   reports, passes, rounds, gateVars, exit_status>>

\* fix_results['all_fixed'] = (fix_results['fixed_count'] == len(test_results['failures']))
AllFixed(fr, tr) == fr.fixed_count = Len(tr.failures)

\* "if fix_results['all_fixed']": whether the final verification runs
ReverifiesAlways(fr) == TRUE

Reverifies(fr) == fr.all_fixed

\* end of the loop of attempt_fixes, and the branch taken on its result
FinishFixes ==
    /\ hook = "autofix" /\ pc = "fix" /\ idx > Len(test_results.failures)
    /\ fix_results' = [fix_results EXCEPT !.all_fixed = AllFixed(fix_results, test_results)]
    /\ rounds' = rounds + 1
    /\ pc' = IF Reverifies(fix_results') THEN "reverify" ELSE "notify"
    /\ UNCHANGED <<hook, project_type, stdin, test_results, final_results, idx, dispatched,
                   fix_log, notifications, reports, passes, gateVars, writes, error,
                   exit_status>>

\* run_all_tests calls of the final verification
FinalVerificationRunsOffByOne == max_fix_attempts + 1

FinalVerificationRuns == 1

\* final_results = self.run_all_tests(project_type, changed_files)
FinalVerification ==
    /\ hook = "autofix" /\ pc = "reverify"
    /\ \E r \in PassOutcomes(project_type) :
          /\ final_results' = r
          /\ passes' = passes + FinalVerificationRuns
          /\ pc' = "notify"
    /\ UNCHANGED <<hook, project_type, stdin, test_results, fix_results, idx, dispatched,
                   fix_log, notifications, reports, rounds, gateVars, writes, error,
                   exit_status>>

\* a choice that trusts the fixers and reports success without the final pass
NotificationForTrusting(fr, final) == IF fr.all_fixed THEN "success" ELSE "failure"

\* which of send_success / send_partial_fix / send_failure_notification is called
NotificationFor(fr, final) ==
    IF fr.all_fixed
    THEN IF ~final.has_failures THEN "success" ELSE "partial"
    ELSE "failure"

\* a sender without the try/except: a failed delivery raises into the entry point
NotifyRaising ==
    /\ hook = "autofix" /\ pc = "notify"
    /\ \E delivered \in BOOLEAN :
          IF delivered
          THEN /\ notifications' = Append(notifications,
                      [kind |-> NotificationFor(fix_results, final_results),
                       delivered |-> TRUE])
               /\ pc' = "save"
               /\ error' = error
          ELSE /\ Raise("notify")
               /\ notifications' = Append(notifications,
                      [kind |-> NotificationFor(fix_results, final_results),
                       delivered |-> FALSE])
    /\ UNCHANGED <<hook, project_type, stdin, test_results, final_results, fix_results, idx,
                   dispatched, fix_log, reports, passes, rounds, gateVars, writes,
                   exit_status>>

\* requests.post inside try/except: a failed delivery is dropped
Notify ==
    /\ hook = "autofix" /\ pc = "notify"
    /\ \E delivered \in BOOLEAN :
          notifications' = Append(notifications,
              [kind |-> NotificationFor(fix_results, final_results),
               delivered |-> delivered])
    /\ pc' = "save"
    /\ UNCHANGED <<hook, project_type, stdin, test_results, final_results, fix_results, idx,
                   dispatched, fix_log, reports, passes, rounds, gateVars, writes, error,
                   exit_status>>

Count(s, P(_)) == Cardinality({i \in 1..Len(s) : P(s[i])})

Report(tr) ==
    LET ok(t) == t.success
        bad(t) == ~t.success
    IN [test_results |-> tr,
        stats |-> [total_tests |-> Len(tr.tests_run),
                   passed |-> Count(tr.tests_run, ok),
                   failed |-> Count(tr.tests_run, bad),
                   failure_count |-> Len(tr.failures)]]

\* self.save_test_report(test_results, hook_data)
SaveReport ==
    /\ hook = "autofix" /\ pc = "save"
    /\ \E ok \in BOOLEAN :
          IF ok
          THEN /\ reports' = Append(reports, Report(test_results))
               /\ writes' = writes \cup {test_results_dir \o <<"test_report.json">>}
               /\ pc' = "return"
               /\ error' = error
          ELSE /\ Raise("save_test_report")
               /\ UNCHANGED <<reports, writes>>
    /\ UNCHANGED <<hook, project_type, stdin, test_results, final_results, fix_results, idx,
                   dispatched, fix_log, notifications, passes, rounds, gateVars,
                   exit_status>>

\* "return 0" of run_comprehensive_test, of check_completion and of
\* guard_tool_use
Return ==
    /\ pc = "return"
    /\ exit_status' = 0
    /\ pc' = "done"
    /\ UNCHANGED <<hook, project_type, stdin, loopVars, gateVars, writes, error>>

\* ------------------------------------------- SmartCompletionGuardian: trigger
completion_patterns ==
    <<"all done", "complete", "finished", "ready", "all set", "that's it", "task complete">>

\* str.lower()
Lower(text) ==
    CASE text = "echo 'All done'"        -> "echo 'all done'"
      [] text = "print('Task complete')" -> "print('task complete')"
      [] text = "echo INCOMPLETE"        -> "echo incomplete"
      [] OTHER                           -> text

\* needle in text
Contains(needle, text) ==
    CASE text = "echo 'All done'"        -> needle \in {"echo"}
      [] text = "echo 'all done'"        -> needle \in {"echo", "all done"}
      [] text = "echo hello"             -> needle \in {"echo"}
      [] text = "print('Task complete')" -> needle \in {"print", "complete"}
      [] text = "print('task complete')" -> needle \in {"print", "complete", "task complete"}
      [] text = "echo INCOMPLETE"        -> needle \in {"echo"}
      [] text = "echo incomplete"        -> needle \in {"echo", "complete"}
      [] text = "git commit -m finished" -> needle \in {"finished"}
      [] OTHER                           -> FALSE

\* a trigger that fires on every Bash command
should_checkAnyBash(tool_input) == tool_input.tool_name = "Bash"

should_check(tool_input) ==
    IF tool_input.tool_name # "Bash" THEN FALSE
    ELSE LET command == Lower(tool_input.command) IN
         /\ Contains("echo", command) \/ Contains("print", command)
         /\ \E i \in 1..Len(completion_patterns) :
               Contains(completion_patterns[i], Lower(command))

\* --------------------------------------------- SmartCompletionGuardian: checks
\* What one check's subprocess does: it exits with status rc after reporting n
\* findings, or subprocess.run raises (TimeoutExpired, OSError).
CheckExit(rc, n) == [kind |-> "exit", returncode |-> rc, n |-> n]
CheckRaise == [kind |-> "raise", returncode |-> 0, n |-> 0]

GateIssue(type, file, line, column, message, fix_hint) ==
    [type |-> type, file |-> file, line |-> line, column |-> column,
     message |-> message, fix_hint |-> fix_hint]

LineNo(i) == CASE i = 1 -> "1" [] i = 2 -> "2" [] i = 3 -> "3" [] i = 4 -> "4"
               [] i = 5 -> "5" [] OTHER -> "6"

Checked(errs) == [raised |-> FALSE, errors |-> errs]
Crashed == [raised |-> TRUE, errors |-> <<>>]

check_javascript(p, ev) ==
    IF package_json \notin p.files THEN Checked(<<>>)
    ELSE IF ev.kind = "raise" THEN Crashed
    ELSE Checked(Take([i \in 1..ev.n |->
                 GateIssue("typescript", "app.ts", LineNo(i), "5", "Type error",
                           "Edit app.ts to fix")], 5))

\* "python3 -m py_compile {py_file} 2>&1" under capture_output: the shell sends
\* the compiler's messages to stdout, and result.stderr stays empty
PyCompile(broken) ==
    [stdout |-> IF broken THEN <<"File \"a.py\", line 1">> ELSE <<>>, stderr |-> <<>>]

check_python(p, ev) ==
    LET results == [i \in 1..ev.n |-> PyCompile(TRUE)]
        found == Concat([i \in 1..ev.n |->
                   IF results[i].stderr # <<>>
                   THEN <<GateIssue("python_syntax", "a.py", "1", Absent,
                                    "SyntaxError", "Fix Python syntax")>>
                   ELSE <<>>])
    IN Checked(found)

check_docker(p, ev) ==
    IF docker_compose_yml \notin p.files THEN Checked(<<>>)
    ELSE IF ev.kind = "raise" THEN Crashed
    ELSE IF ev.returncode # 0
    THEN Checked(<<GateIssue("docker_compose", "docker-compose.yml", Absent, Absent,
                             "yaml: line 3", "Fix docker-compose.yml syntax")>>)
    ELSE Checked(<<>>)

check_linting(p, ev) ==
    IF package_json \notin p.files THEN Checked(<<>>)
    ELSE IF ev.kind = "raise" THEN Crashed
    ELSE Checked(Take([i \in 1..ev.n |->
                 GateIssue("lint", "app.js", LineNo(i), "3", "no-unused-vars",
                           "Run 'npm run lint -- --fix'")], 3))

\* ev.n: lines of "git status --porcelain"
check_git_status(ev) ==
    IF ev.kind = "raise" THEN Crashed
    ELSE IF ev.n > 10
    THEN Checked(<<GateIssue("git_warning", Absent, Absent, Absent,
                             "files have uncommitted changes",
                             "Consider committing changes")>>)
    ELSE Checked(<<>>)

\* run_checks: the five checks in order; an exception of one of them ends it
run_checks(p, e) ==
    LET rs == <<check_javascript(p, e[1]), check_python(p, e[2]), check_docker(p, e[3]),
                check_linting(p, e[4]), check_git_status(e[5])>>
    IN IF \E i \in 1..5 : rs[i].raised THEN Crashed
       ELSE Checked(Concat([i \in 1..5 |-> rs[i].errors]))

GitEvents == {CheckRaise} \cup {CheckExit(0, n) : n \in {0, 10, 11}}

\* a check that does not run for this project, or ignores an input, gets one event
GateEnvs(p) ==
    LET js == IF package_json \in p.files
              THEN {CheckRaise} \cup {CheckExit(0, n) : n \in 0..MaxGateErrors}
              ELSE {CheckExit(0, 0)}
        py == {CheckExit(0, n) : n \in 0..MaxGateErrors}
        dk == IF docker_compose_yml \in p.files
              THEN {CheckRaise, CheckExit(0, 0), CheckExit(1, 0)}
              ELSE {CheckExit(0, 0)}
    IN {<<a, b, c, d, g>> : a \in js, b \in py, c \in dk, d \in js, g \in GitEvents}

\* -------------------------------------------- SmartCompletionGuardian: message
RECURSIVE TypesInOrder(_, _)
\* keys of by_type in insertion order
TypesInOrder(iss, seen) ==
    IF iss = <<>> THEN <<>>
    ELSE IF Head(iss).type \in seen THEN TypesInOrder(Tail(iss), seen)
    ELSE <<Head(iss).type>> \o TypesInOrder(Tail(iss), seen \cup {Head(iss).type})

RECURSIVE OfType(_, _)
OfType(iss, t) ==
    IF iss = <<>> THEN <<>>
    ELSE (IF Head(iss).type = t THEN <<Head(iss)>> ELSE <<>>) \o OfType(Tail(iss), t)

Heading(t) ==
    CASE t = "typescript"     -> "TypeScript Errors:"
      [] t = "python_syntax"  -> "Python Syntax Errors:"
      [] t = "lint"           -> "Linting Errors:"
      [] t = "docker_compose" -> "Docker Configuration:"
      [] t = "git_warning"    -> "Git Warnings:"
      [] OTHER                -> "Other Issues:"

EntryLines(issue) ==
    <<[kind |-> "entry",
       text |-> IF issue.file # Absent /\ issue.line # Absent
                THEN <<issue.file, issue.line, issue.message>>
                ELSE <<issue.message>>]>>
    \o (IF issue.fix_hint # Absent
        THEN <<[kind |-> "hint", text |-> <<issue.fix_hint>>]>> ELSE <<>>)

\* a message that gives every issue a heading of its own
format_block_messageUngrouped(iss) ==
    Concat([i \in 1..Len(iss) |->
              <<[kind |-> "heading", text |-> <<Heading(iss[i].type)>>]>>
              \o EntryLines(iss[i])])

\* The lines of the block message between its first line (the count) and the
\* closing advice. message[:50] and [:80] keep the modelled messages whole: none
\* of them is longer than 31 characters.
format_block_message(iss) ==
    LET types == TypesInOrder(iss, {})
        group(t) == LET shown == Take(OfType(iss, t), ShownPerType) IN
                    <<[kind |-> "heading", text |-> <<Heading(t)>>]>>
                    \o Concat([i \in 1..Len(shown) |-> EntryLines(shown[i])])
    IN Concat([k \in 1..Len(types) |-> group(types[k])])

\* ----------------------------------------- SmartCompletionGuardian: entry point
\* json.load(sys.stdin) and should_check
GateLoadInput ==
    /\ hook = "gate" /\ pc = "start"
    /\ IF ~stdin.valid THEN Raise("json.load")
       ELSE /\ pc' = IF should_check(stdin) THEN "checks" ELSE "return"
            /\ error' = error
    /\ UNCHANGED <<hook, project_type, stdin, loopVars, gateVars, writes, exit_status>>

\* issues = self.run_checks()
GateRunChecks ==
    /\ hook = "gate" /\ pc = "checks"
    /\ \E p \in Projects : \E e \in GateEnvs(p) :
          LET r == run_checks(p, e) IN
          IF r.raised
          THEN Raise("run_checks") /\ issues' = issues
          ELSE issues' = r.errors /\ pc' = "decide" /\ error' = error
    /\ UNCHANGED <<hook, project_type, stdin, loopVars, stdout, audit, writes, exit_status>>

\* "if issues:" prints the block action before anything is logged
EmitsBlockOnSeveral(iss) == Len(iss) > 1

EmitsBlock(iss) == iss # <<>>

\* a gate that also runs the lint auto-fix when it blocks
GateDecideWithFix ==
    /\ hook = "gate" /\ pc = "decide"
    /\ stdout' = IF EmitsBlock(issues)
                 THEN Append(stdout, [action |-> "block",
                                      message |-> format_block_message(issues)])
                 ELSE stdout
    /\ dispatched' = IF EmitsBlock(issues)
                     THEN Append(dispatched, [failure |-> issues[1],
                                              fixer |-> "fix_lint_error_js",
                                              result |-> TRUE, raised |-> FALSE])
                     ELSE dispatched
    /\ pc' = "audit"
    /\ UNCHANGED <<hook, project_type, stdin, test_results, final_results, fix_results,
                   idx, fix_log, notifications, reports, passes, rounds, issues, audit,
                   writes, error, exit_status>>

GateDecide ==
    /\ hook = "gate" /\ pc = "decide"
    /\ stdout' = IF EmitsBlock(issues)
                 THEN Append(stdout, [action |-> "block",
                                      message |-> format_block_message(issues)])
                 ELSE stdout
    /\ pc' = "audit"
    /\ UNCHANGED <<hook, project_type, stdin, loopVars, issues, audit, writes, error,
                   exit_status>>

\* a gate that takes its block decision back when the audit append fails
GateAuditRetractsBlock ==
    /\ hook = "gate" /\ pc = "audit"
    /\ \E ok \in BOOLEAN :
          IF ok
          THEN /\ audit' = Append(audit, [issues |-> issues, blocked |-> issues # <<>>])
               /\ writes' = writes \cup {completion_blocks_file}
               /\ pc' = "return"
               /\ error' = error
               /\ stdout' = stdout
          ELSE /\ Raise("audit")
               /\ stdout' = <<>>
               /\ UNCHANGED <<audit, writes>>
    /\ UNCHANGED <<hook, project_type, stdin, loopVars, issues, exit_status>>

\* the append to completion-blocks.jsonl, in both branches
GateAudit ==
    /\ hook = "gate" /\ pc = "audit"
    /\ \E ok \in BOOLEAN :
          IF ok
          THEN /\ audit' = Append(audit, [issues |-> issues, blocked |-> issues # <<>>])
               /\ writes' = writes \cup {completion_blocks_file}
               /\ pc' = "return"
               /\ error' = error
          ELSE /\ Raise("audit")
               /\ UNCHANGED <<audit, writes>>
    /\ UNCHANGED <<hook, project_type, stdin, loopVars, issues, stdout, exit_status>>

\* ------------------------------------------------- BettyGuardian (pre-tool)
blocked_log == betty_dir \o <<"security", "blocked-operations.jsonl">>

protected_files ==
    <<"/etc/passwd", "/etc/shadow", "/etc/sudoers", "/.ssh/authorized_keys",
      "/boot/", "/sys/", "/proc/">>

dangerous_patterns ==
    <<"rm\\s+-rf\\s+/", "rm\\s+-rf\\s+\\*", ":\\(\\)\\{\\s*:\\|\\s*:&\\s*\\}",
      ">\\s*/dev/sda", "dd\\s+if=/dev/zero", "chmod\\s+777\\s+/", "kill\\s+-9\\s+-1">>

\* re.search(pattern, command, re.IGNORECASE) finds a match
Search(pattern, command) ==
    CASE pattern = "rm\\s+-rf\\s+/"     -> command \in {"rm -rf /", "RM -RF /tmp/x"}
      [] pattern = "rm\\s+-rf\\s+\\*"   -> command = "sudo rm -rf *"
      [] pattern = ":\\(\\)\\{\\s*:\\|\\s*:&\\s*\\}" -> command = ":(){ :|:& };:"
      [] pattern = ">\\s*/dev/sda"       -> command = "cat img > /dev/sda"
      [] pattern = "dd\\s+if=/dev/zero"  -> command = "dd if=/dev/zero of=disk.img"
      [] pattern = "chmod\\s+777\\s+/"   -> command = "chmod 777 /etc"
      [] pattern = "kill\\s+-9\\s+-1"    -> command = "kill -9 -1"
      [] OTHER -> FALSE

\* file_path.startswith(protected)
StartsWith(file_path, protected) ==
    CASE protected = "/etc/passwd" -> file_path \in {"/etc/passwd", "/etc/passwd.bak"}
      [] protected = "/boot/"      -> file_path = "/boot/grub/grub.cfg"
      [] protected = "/proc/"      -> file_path = "/proc/1/mem"
      [] OTHER -> FALSE

\* the block a guard decides on: what block_operation is called with, or Absent
NoBlock == [tool |-> Absent, operation |-> Absent, reason |-> Absent]

\* the least member of a nonempty set of positions
First(hits) == CHOOSE i \in hits : \A j \in hits : i <= j

\* "for pattern in self.dangerous_patterns": the first pattern found decides
guard_bash_command(tool_input) ==
    LET command == tool_input.command
        hits == {i \in 1..Len(dangerous_patterns) : Search(dangerous_patterns[i], command)}
    IN IF hits = {} THEN NoBlock
       ELSE [tool |-> "bash", operation |-> command,
             reason |-> dangerous_patterns[First(hits)]]

\* "for protected in self.protected_files": the first prefix that fits decides
guard_file_operation(tool_name, tool_input) ==
    LET file_path == tool_input.file_path
        hits == {i \in 1..Len(protected_files) : StartsWith(file_path, protected_files[i])}
    IN IF hits = {} THEN NoBlock
       ELSE [tool |-> tool_name, operation |-> file_path,
             reason |-> protected_files[First(hits)]]

\* the dispatch of guard_tool_use on the tool name; KillBash and the general
\* checks only warn
GuardDecision(hook_data) ==
    CASE hook_data.tool_name = "Bash" -> guard_bash_command(hook_data)
      [] hook_data.tool_name \in {"Edit", "MultiEdit", "Write"} ->
           guard_file_operation(hook_data.tool_name, hook_data)
      [] OTHER -> NoBlock

\* json.load(sys.stdin) and the guard for the tool, up to its decision
GuardToolUse ==
    /\ hook = "guardian" /\ pc = "start"
    /\ IF ~stdin.valid THEN Raise("json.load")
       ELSE /\ pc' = IF GuardDecision(stdin) # NoBlock THEN "block" ELSE "return"
            /\ error' = error
    /\ UNCHANGED <<hook, project_type, stdin, loopVars, gateVars, writes, exit_status>>

\* self.block_operation(...): the append to blocked-operations.jsonl, unprotected,
\* then the security alert, whose failure is dropped
BlockOperation ==
    /\ hook = "guardian" /\ pc = "block"
    /\ \E log_ok \in BOOLEAN, delivered \in BOOLEAN :
          IF log_ok
          THEN /\ audit' = Append(audit, GuardDecision(stdin))
               /\ writes' = writes \cup {blocked_log}
               /\ notifications' = Append(notifications,
                      [kind |-> "security", delivered |-> delivered])
               /\ pc' = "blocked"
               /\ error' = error
          ELSE /\ Raise("block_operation")
               /\ UNCHANGED <<audit, writes, notifications>>
    /\ UNCHANGED <<hook, project_type, stdin, test_results, final_results, fix_results,
                   idx, dispatched, fix_log, reports, passes, rounds, issues, stdout,
                   exit_status>>

\* "return 1  # BLOCK" of guard_bash_command and guard_file_operation
GuardReturnBlock ==
    /\ hook = "guardian" /\ pc = "blocked"
    /\ exit_status' = 1
    /\ pc' = "done"
    /\ UNCHANGED <<hook, project_type, stdin, loopVars, gateVars, writes, error>>

\* ------------------------------------------------------------- specification
Next ==
    \/ LoadInput
    \/ InitialVerification
    \/ AttemptFix
    \/ FinishFixes
    \/ FinalVerification
    \/ Notify
    \/ SaveReport
    \/ GateLoadInput
    \/ GateRunChecks
    \/ GateDecide
    \/ GateAudit
    \/ GuardToolUse
    \/ BlockOperation
    \/ GuardReturnBlock
    \/ Return

Spec == Init /\ [][Next]_vars

\* ------------------------------------------ attempt_fixes on any failure list
\* Most failures in a list handed to attempt_fixes.
MaxFailures == 2

\* failures as the parse_* functions build them, with either value of 'fixable'
AttemptInputs ==
    UNION {{Failure("lint_error", "npm run lint", NoDetails, "app.js", "12", "3",
                    "missing semicolon", fx),
            Failure("type_error", "npm run tsc", NoDetails, "app.ts", "7", Absent,
                    "Parameter 'x' implicitly has an 'any' type", fx),
            Failure("test_failure", "npm test", <<"boom">>, Absent, Absent, Absent,
                    Absent, fx),
            Failure("syntax_error", "npm run build", NoDetails, "app.js", "12", Absent,
                    "Unexpected token", fx),
            Failure("yaml_error", "docker-compose build", NoDetails, Absent, Absent,
                    Absent, Absent, fx)} : fx \in BOOLEAN}

\* attempt_fixes(test_results, project_type, changed_files) is entered
InitAttempt ==
    /\ hook = "autofix"
    /\ pc = "fix"
    /\ project_type \in ProjectTypes
    /\ stdin = AutofixPayload
    /\ \E n \in 1..MaxFailures : \E fs \in SeqsOfLen(AttemptInputs, n) :
          test_results = [project_type |-> project_type, tests_run |-> <<>>,
                          failures |-> fs, has_failures |-> TRUE]
    /\ final_results = Outcome(NoResults)
    /\ fix_results = NoFixResults
    /\ idx = 1
    /\ dispatched = <<>>
    /\ fix_log = <<>>
    /\ notifications = <<>>
    /\ reports = <<>>
    /\ passes = 1
    /\ rounds = 0
    /\ issues = <<>>
    /\ stdout = <<>>
    /\ audit = <<>>
    /\ writes = {}
    /\ error = Absent
    /\ exit_status = -1

NextAttempt ==
    \/ AttemptFix
    \/ FinishFixes

SpecAttempt == InitAttempt /\ [][NextAttempt]_vars

\* ------------------------------------------- one stage of run_all_tests alone
\* Most output lines of the stage that is run and classified.
MaxOutputLines == 6

\* before the stage is run
InitClassify ==
    /\ hook = "autofix"
    /\ pc = "classify"
    /\ project_type = Absent
    /\ stdin = AutofixPayload
    /\ test_results = NoResults
    /\ final_results = Outcome(NoResults)
    /\ fix_results = NoFixResults
    /\ idx = 1
    /\ dispatched = <<>>
    /\ fix_log = <<>>
    /\ notifications = <<>>
    /\ reports = <<>>
    /\ passes = 0
    /\ rounds = 0
    /\ issues = <<>>
    /\ stdout = <<>>
    /\ audit = <<>>
    /\ writes = {}
    /\ error = Absent
    /\ exit_status = -1

\* one iteration of one of the four command loops of run_all_tests: the command
\* is run, recorded in tests_run, and its output is parsed if it failed
ClassifyStage ==
    /\ hook = "autofix" /\ pc = "classify"
    /\ \E pt \in ProjectTypes : \E i \in 1..Len(StagesOf(pt)) :
       \E rc \in {0, 1}, n \in 0..MaxOutputLines :
       \E out \in SeqsOfLen(LinesFor(StagesOf(pt)[i].type), n) :
          LET stage == StagesOf(pt)[i]
              result == run_command(ExitEvent(rc, out))
              fails == StageFailures(stage, result)
          IN /\ project_type' = pt
             /\ test_results' =
                   [project_type |-> pt,
                    tests_run |-> <<[command |-> stage.command, type |-> stage.type,
                                     success |-> result.success,
                                     output |-> Excerpt(result.output, OutputExcerptLen)]>>,
                    failures |-> fails,
                    has_failures |-> Len(fails) > 0]
    /\ pc' = "classified"
    /\ UNCHANGED <<hook, stdin, final_results, fix_results, idx, dispatched, fix_log,
                   notifications, reports, passes, rounds, gateVars, writes, error,
                   exit_status>>

NextClassify == ClassifyStage

SpecClassify == InitClassify /\ [][NextClassify]_vars

\* ------------------------------------------------------------------ properties
Autofix == hook = "autofix"
Gate == hook = "gate"

\* full re-runs of all stages after the first pass
ReverificationPasses == IF passes = 0 THEN 0 ELSE passes - 1

\* the hook printed a block decision
Blocked == \E i \in 1..Len(stdout) : stdout[i].action = "block"

\* C1: in one run of run_comprehensive_test the number of re-verification passes
\* never exceeds max_fix_attempts.
C1_BoundedReverification ==
    Autofix => ReverificationPasses <= max_fix_attempts

\* a finished run that re-verified and still had failures
C1_Witness ==
    /\ Autofix /\ pc = "done"
    /\ ReverificationPasses = 1
    /\ final_results.has_failures

\* C2: when the fixable failures of the first pass reappear in the verification
\* pass that follows the fixes, the run ends after exactly max_fix_attempts
\* remediation rounds with all_fixed = false.
C2_ThreeRoundsThenNotFixed ==
    ( /\ Autofix /\ pc = "done" /\ error = Absent
      /\ test_results.has_failures
      /\ \A i \in 1..Len(test_results.failures) : test_results.failures[i].fixable
      /\ passes > 1
      /\ final_results.failures = test_results.failures )
    => (rounds = max_fix_attempts /\ ~fix_results.all_fixed)

\* C3: a run whose first pass found failures ends only after every failure of
\* the pass has been processed and the report has been saved.
C3_NeverStopsEarly ==
    (Autofix /\ pc = "done" /\ test_results.has_failures)
    => (idx > Len(test_results.failures) /\ Len(reports) = 1)

\* C4: a failure that reappears in the final verification pass is not among the
\* failures the run counts as fixed.
C4_ReverificationDecidesFixed ==
    (Autofix /\ pc = "done" /\ error = Absent /\ passes > 1)
    => \A i \in 1..Len(fix_results.fixed) :
          fix_results.fixed[i] \notin Range(final_results.failures)

C6_SucceededStageHasNoFailures ==
    \A i \in 1..Len(test_results.tests_run) :
       test_results.tests_run[i].success
       => \A j \in 1..Len(test_results.failures) :
             test_results.failures[j].command # test_results.tests_run[i].command

\* a stage succeeded with output that matches a failure pattern
C6_Witness ==
    \E i \in 1..Len(test_results.tests_run) :
       LET t == test_results.tests_run[i] IN
       /\ t.success
       /\ ParseFailures(t.type, t.output, t.command) # <<>>

\* C7: without an internal error, the gate emits a block decision exactly when
\* its verification pass yields issues.
C7_BlocksIffIssues ==
    (Gate /\ pc = "done" /\ error = Absent /\ should_check(stdin))
    => /\ Blocked <=> issues # <<>>
       /\ exit_status = 0

\* the gate finished without error and blocked
C7_Witness ==
    /\ Gate /\ pc = "done" /\ error = Absent
    /\ issues # <<>>
    /\ Blocked

\* C8: when the gate's evaluation raised an internal error, no block decision
\* was emitted.
C8_FailsOpenOnAnyError ==
    (Gate /\ pc = "done" /\ error # Absent) => ~Blocked

\* C9 (as stated): the gate invokes no strategy and writes nothing inside the
\* project tree.
C9_NoWriteInProjectTree ==
    Gate => /\ dispatched = <<>>
            /\ \A path \in writes : ~IsInside(path, betty_dir)

\* C9 (amended): the gate invokes no strategy, logs no fix, and the one file its
\* own code writes is the audit record completion-blocks.jsonl.
C9_OnlyAuditRecordWritten ==
    Gate => /\ dispatched = <<>>
            /\ fix_log = <<>>
            /\ writes \subseteq {<<"home", "jarvis", "projects", "Betty",
                                  "completion-blocks.jsonl">>}

\* the gate blocked and appended its audit record
C9_Witness ==
    /\ Gate /\ pc = "done"
    /\ Blocked
    /\ audit # <<>>
    /\ writes # {}

\* C10: a failure with fixable = false is never passed to a fixer and is not
\* counted as attempted.
C10_UnfixableNeverDispatched ==
    Autofix =>
       /\ \A i \in 1..Len(dispatched) : dispatched[i].failure.fixable
       /\ fix_results.attempted = Len(dispatched)
       /\ \A i \in 1..Len(fix_results.fixed) : fix_results.fixed[i].fixable
       /\ \A i \in 1..Len(fix_results.failed) : fix_results.failed[i].fixable

\* attempt_fixes ran over a list with an unfixable failure and a fixable one
C10_Witness ==
    /\ Autofix /\ pc = "fix" /\ idx > Len(test_results.failures)
    /\ \E i \in 1..Len(test_results.failures) : ~test_results.failures[i].fixable
    /\ dispatched # <<>>

\* C11: run_command never raises. A timeout gives success = false, returncode -1
\* and the timed-out message as output; a launch failure gives success = false
\* with the error's message as output; in both cases the pass goes on to run
\* every remaining stage.
C11_StageRunnerNeverRaises ==
    /\ run_command(TimeoutEvent) =
          [success |-> FALSE, output |-> <<"timeout">>, returncode |-> -1]
    /\ run_command(OSErrorEvent) =
          [success |-> FALSE, output |-> <<"oserror">>, returncode |-> -1]
    /\ error # "run_command"
    /\ (Autofix /\ passes >= 1 /\ test_results.tests_run # <<>>) =>
          LET stages == StagesOf(project_type) IN
          /\ Len(test_results.tests_run) = Len(stages)
          /\ \A i \in 1..Len(stages) :
                LET t == test_results.tests_run[i] IN
                /\ t.command = stages[i].command
                /\ t.output \in {<<"timeout">>, <<"oserror">>} => ~t.success

\* a stage timed out and the stages after it were run
C11_Witness ==
    /\ Autofix /\ passes >= 1
    /\ \E i \in 1..Len(test_results.tests_run) :
          /\ test_results.tests_run[i].output = <<"timeout">>
          /\ ~test_results.tests_run[i].success
          /\ i < Len(test_results.tests_run)
          /\ test_results.tests_run[i + 1].success

\* C12: an exception inside a fixer is treated as a return of False: it does not
\* reach the caller, the failure is recorded as a failed attempt, and the loop
\* over the failures goes on to the remaining ones.
C12_FixerErrorIsFalse ==
    Autofix =>
       /\ error \in {Absent, "json.load", "log_fix", "save_test_report"}
       /\ \A i \in 1..Len(dispatched) :
             dispatched[i].raised =>
                /\ ~dispatched[i].result
                /\ dispatched[i].failure \in Range(fix_results.failed)
       /\ Len(fix_results.failed) = Cardinality({i \in 1..Len(dispatched) :
                                                   ~dispatched[i].result})
       /\ Len(fix_results.fixed) = Cardinality({i \in 1..Len(dispatched) :
                                                  dispatched[i].result})
       /\ (dispatched # <<>> /\ pc # "fix" /\ error # "log_fix")
             => idx > Len(test_results.failures)

\* a fixer met an exception and the failure after it was attempted as well
C12_Witness ==
    /\ Autofix /\ pc = "done" /\ error = Absent
    /\ Len(dispatched) >= 2
    /\ dispatched[1].raised
    /\ fix_results.attempted = 2

\* C13: in a javascript project where one lint command fails with one line
\* "file:line:column: error: message", the lint fixer succeeds and the final
\* verification is clean, the run ends after one round with all_fixed = true
\* and exactly one entry, with status success, in the fix history.
C13_OneLintFailureOneAttempt ==
    ( /\ Autofix /\ pc = "done" /\ error = Absent
      /\ project_type = "javascript"
      /\ \E i \in 1..Len(test_results.tests_run) :
            /\ test_results.tests_run[i].type = "lint"
            /\ ~test_results.tests_run[i].success
            /\ test_results.tests_run[i].output = <<"eslint">>
            /\ \A j \in 1..Len(test_results.tests_run) :
                  j # i => test_results.tests_run[j].success
      /\ \A i \in 1..Len(dispatched) : dispatched[i].result
      /\ passes = 2 /\ ~final_results.has_failures )
    => /\ rounds = 1
       /\ fix_results.all_fixed
       /\ Len(fix_log) = 1
       /\ fix_log[1].status = "success"

\* C14: when a build command exits nonzero with output that no pattern
\* recognizes, the pass holds a failure with fixable = false for that command, no
\* fixer is called for it, and the run ends with all_fixed = false and is not
\* reported as clean.
C14_UnrecognizedBuildFailureIsUnresolved ==
    \A i \in 1..Len(test_results.tests_run) :
       LET t == test_results.tests_run[i] IN
       ( /\ Autofix /\ pc = "done" /\ error = Absent
         /\ t.type = "build" /\ ~t.success /\ t.output = <<"noise">> )
       => /\ \E j \in 1..Len(test_results.failures) :
                /\ test_results.failures[j].command = t.command
                /\ ~test_results.failures[j].fixable
          /\ \A k \in 1..Len(dispatched) : dispatched[k].failure.command # t.command
          /\ ~fix_results.all_fixed
          /\ test_results.has_failures
          /\ notifications # <<>>

\* the failures of a pass that come from one command
FailuresOf(command) ==
    {j \in 1..Len(test_results.failures) : test_results.failures[j].command = command}

\* C15: a stage run of any kind contributes at most FailureLimit (10) failures to
\* its pass, however many matches its output holds.
C15_AtMostTenPerStage ==
    \A i \in 1..Len(test_results.tests_run) :
       Cardinality(FailuresOf(test_results.tests_run[i].command)) <= FailureLimit

\* a type-check stage whose output holds more than 10 matches gave exactly 10
C15_Witness ==
    /\ pc = "classified"
    /\ test_results.tests_run[1].type = "type-check"
    /\ Len(FindallIn(type_patterns[1], test_results.tests_run[1].output))
         + Len(FindallIn(type_patterns[2], test_results.tests_run[1].output)) > FailureLimit
    /\ Len(test_results.failures) = FailureLimit

C17_NotificationFailureSwallowed ==
    /\ [](error # "notify")
    /\ [][(Autofix /\ pc = "notify") =>
            /\ pc' = "save"
            /\ error' = error
            /\ test_results' = test_results
            /\ final_results' = final_results
            /\ fix_results' = fix_results
            /\ Report(test_results') = Report(test_results)
            /\ reports' = reports]_vars
    /\ [][(Autofix /\ pc = "save" /\ pc' = "return" /\ error' = Absent) =>
            reports' = <<Report(test_results)>>]_vars

\* a run whose notification was not delivered saved its report and returned
C17_Witness ==
    /\ Autofix /\ pc = "done" /\ error = Absent
    /\ \E i \in 1..Len(notifications) : ~notifications[i].delivered
    /\ Len(reports) = 1
    /\ exit_status = 0

\* C18: every failure that classification marks fixable has a type for which
\* the project type's common_fixes registers a fixer.
C18_FixableOnlyIfRegistered ==
    (Autofix /\ passes >= 1) =>
       \A i \in 1..Len(test_results.failures) :
          test_results.failures[i].fixable
          => test_results.failures[i].type \in DOMAIN common_fixes(project_type)

\* C19: every fixer call of a remediation pass, registered fixer or generic
\* fallback, leaves exactly one entry in the fix history, whose status matches
\* the fixer's result.
C19_OneLogEntryPerDispatch ==
    (Autofix /\ error = Absent) =>
       /\ Len(fix_log) = Len(dispatched)
       /\ \A i \in 1..Len(fix_log) :
             /\ i <= Len(dispatched)
             /\ fix_log[i].failure = dispatched[i].failure
             /\ fix_log[i].status = (IF dispatched[i].result THEN "success" ELSE "failed")

\* the fixable failures among the first n of the pass, in their order
FixableUpTo(n) ==
    SelectSeq(SubSeq(test_results.failures, 1, n), LAMBDA f : f.fixable)

C21_CleanFirstPassGoesToReport ==
    (Autofix /\ passes >= 1 /\ ~test_results.has_failures) =>
       /\ pc \in {"save", "return", "done"}
       /\ dispatched = <<>> /\ fix_results = NoFixResults /\ rounds = 0
       /\ passes = 1
       /\ fix_log = <<>>
       /\ error \in {Absent, "save_test_report"}
       /\ (pc \in {"return", "done"} /\ error = Absent) => reports = <<Report(test_results)>>

\* a run with a clean first pass saved its report and returned
C21_Witness ==
    /\ Autofix /\ pc = "done" /\ error = Absent
    /\ passes = 1
    /\ ~test_results.has_failures
    /\ \A i \in 1..Len(test_results.tests_run) : test_results.tests_run[i].success
    /\ Len(reports) = 1

\* the payload is a Bash command that contains echo or print and a completion
\* phrase, letter case ignored
IsCompletionSignal(payload) ==
    /\ payload.tool_name = "Bash"
    /\ \E word \in {"echo", "print"} : Contains(word, Lower(payload.command))
    /\ \E phrase \in {"all done", "complete", "finished", "ready", "all set",
                        "that's it", "task complete"} :
          Contains(phrase, Lower(payload.command))

\* C22: the gate runs its checks only for a completion signal. For every other
\* tool input it runs no check, appends no audit record, prints no decision and
\* returns 0; for a completion signal the checks are what it does first.
C22_ChecksOnlyOnTrigger ==
    (Gate /\ stdin.valid) =>
       IF IsCompletionSignal(stdin)
       THEN pc \in {"start", "checks", "decide", "audit", "return", "done"}
            /\ (pc = "done" => error # Absent \/ audit # <<>>)
       ELSE /\ pc \in {"start", "return", "done"}
            /\ issues = <<>> /\ audit = <<>> /\ writes = {} /\ stdout = <<>>
            /\ error = Absent
            /\ pc = "done" => exit_status = 0

\* a Bash command without a completion phrase was allowed without any check
C22_Witness ==
    /\ Gate /\ pc = "done"
    /\ stdin.tool_name = "Bash" /\ stdin.command = "echo hello"
    /\ audit = <<>> /\ stdout = <<>>
    /\ exit_status = 0

\* C23: a notification is sent only after the report of the run has been saved.
C23_NotifiesAfterReportSaved ==
    (Autofix /\ notifications # <<>>) => reports # <<>>

\* C24: the failures of a pass never hold two entries with the same stage, file,
\* line and message.
C24_FailuresDeduplicated ==
    Autofix =>
       \A i, j \in 1..Len(test_results.failures) :
          LET a == test_results.failures[i]
              b == test_results.failures[j]
          IN (/\ a.command = b.command /\ a.file = b.file
              /\ a.line = b.line /\ a.message = b.message) => i = j

\* the message of the block decision the gate printed
BlockMessage == stdout[1].message

KindsPresent == {issues[i].type : i \in 1..Len(issues)}

IssuesOfKind(t) == SelectSeq(issues, LAMBDA x : x.type = t)

HeadingsOf(t) ==
    {i \in 1..Len(BlockMessage) :
        BlockMessage[i] = [kind |-> "heading", text |-> <<Heading(t)>>]}

EntryOf(issue) ==
    [kind |-> "entry",
     text |-> IF issue.file # Absent /\ issue.line # Absent
              THEN <<issue.file, issue.line, issue.message>>
              ELSE <<issue.message>>]

HintOf(issue) == [kind |-> "hint", text |-> <<issue.fix_hint>>]

\* C25 (as stated): the block message has one heading per kind of issue present
\* and lists every one of the issues as an entry.
C25_EveryIssueListed ==
    (Gate /\ Blocked) =>
       /\ Cardinality({i \in 1..Len(BlockMessage) : BlockMessage[i].kind = "heading"})
            = Cardinality(KindsPresent)
       /\ Cardinality({i \in 1..Len(BlockMessage) : BlockMessage[i].kind = "entry"})
            = Len(issues)

\* C25 (amended): the block message has exactly one heading per kind of issue
\* present; under the heading of a kind stand the first ShownPerType (3) issues
\* of that kind, in order, each as one entry followed by its hint line, and
\* nothing else.
C25_GroupedFirstThreePerKind ==
    (Gate /\ Blocked) =>
       /\ Cardinality({i \in 1..Len(BlockMessage) : BlockMessage[i].kind = "heading"})
            = Cardinality(KindsPresent)
       /\ \A t \in KindsPresent : Cardinality(HeadingsOf(t)) = 1
       /\ \A t \in KindsPresent :
             LET h == CHOOSE i \in HeadingsOf(t) : TRUE
                 of == IssuesOfKind(t)
                 k == IF Len(of) < ShownPerType THEN Len(of) ELSE ShownPerType
             IN /\ h + 2 * k <= Len(BlockMessage)
                /\ \A j \in 1..k :
                      /\ BlockMessage[h + 2 * j - 1] = EntryOf(of[j])
                      /\ BlockMessage[h + 2 * j] = HintOf(of[j])
                /\ \/ h + 2 * k = Len(BlockMessage)
                   \/ BlockMessage[h + 2 * k + 1].kind = "heading"

\* the gate blocked on four TypeScript errors and a git warning
C25_Witness ==
    /\ Gate /\ Blocked
    /\ Len(IssuesOfKind("typescript")) = 4
    /\ Len(IssuesOfKind("git_warning")) = 1
    /\ Cardinality({i \in 1..Len(BlockMessage) : BlockMessage[i].kind = "entry"}) = 4

\* C26: a finished run whose first pass had failures has issued exactly one
\* outcome notification; a run whose first pass was clean has issued none.
C26_ExactlyOneNotification ==
    (Autofix /\ pc = "done" /\ passes >= 1) =>
       IF test_results.has_failures
       THEN Len(notifications) = 1
       ELSE notifications = <<>>

\* C27: the success notification is issued only when every failure of the first
\* pass had its fixer report success and the final verification pass found no
\* failure; when the final pass still fails, the partial notification is issued.
C27_SuccessNeedsCleanFinalPass ==
    Autofix =>
       \A i \in 1..Len(notifications) :
          /\ notifications[i].kind = "success" =>
                /\ fix_results.fixed_count = Len(test_results.failures)
                /\ \A k \in 1..Len(dispatched) : dispatched[k].result
                /\ passes = 2
                /\ ~final_results.has_failures /\ final_results.failures = <<>>
          /\ (fix_results.all_fixed /\ passes = 2 /\ final_results.has_failures) =>
                notifications[i].kind = "partial"
          /\ notifications[i].kind = "partial" =>
                fix_results.all_fixed /\ final_results.has_failures

\* every fixer reported success, the final pass failed, and the run reported a
\* partial fix
C27_Witness ==
    /\ Autofix /\ pc = "done"
    /\ fix_results.all_fixed /\ fix_results.fixed_count >= 1
    /\ final_results.has_failures
    /\ notifications # <<>>
    /\ notifications[1].kind = "partial"

\* C28: no project type registers a fixer for test_failure and the generic
\* fallback acts on lint_error only, so every attempt on a test_failure fails; a
\* run whose first pass holds a test_failure never has all_fixed = true and never
\* runs the final verification.
C28_TestFailureNeverFixed ==
    /\ \A pt \in ProjectTypes : "test_failure" \notin DOMAIN common_fixes(pt)
    /\ Autofix =>
          /\ \A k \in 1..Len(dispatched) :
                dispatched[k].failure.type = "test_failure" =>
                   /\ dispatched[k].fixer = "attempt_generic_fix"
                   /\ ~dispatched[k].result
          /\ (\E j \in 1..Len(test_results.failures) :
                   test_results.failures[j].type = "test_failure") =>
                /\ ~fix_results.all_fixed
                /\ passes <= 1
                /\ pc # "reverify"
                /\ \A i \in 1..Len(notifications) : notifications[i].kind = "failure"

\* a run whose first pass held a test_failure ended with the failure outcome
C28_Witness ==
    /\ Autofix /\ pc = "done" /\ error = Absent
    /\ \E j \in 1..Len(test_results.failures) :
          test_results.failures[j].type = "test_failure"
    /\ \E k \in 1..Len(dispatched) : dispatched[k].failure.type = "test_failure"
    /\ ~fix_results.all_fixed
    /\ passes = 1

Guardian == hook = "guardian"

\* the tool call is a Bash command that matches a dangerous pattern, or an
\* Edit/MultiEdit/Write of a path that starts with a protected path
IsDangerous(payload) ==
    \/ /\ payload.tool_name = "Bash"
       /\ \E i \in 1..Len(dangerous_patterns) : Search(dangerous_patterns[i], payload.command)
    \/ /\ payload.tool_name \in {"Edit", "MultiEdit", "Write"}
       /\ \E i \in 1..Len(protected_files) : StartsWith(payload.file_path, protected_files[i])

\* C30: for every dangerous Bash command and every write to a protected path
\* the pre-tool guardian returns 1, also when logging or alerting the blocked
\* operation fails.
C30_DangerousAlwaysBlocked ==
    (Guardian /\ pc = "done" /\ stdin.valid /\ IsDangerous(stdin)) => exit_status = 1

====
